---- MODULE Spec2Model ----
(***************************************************************************)
(* Model of SeleniumLib (selenium_lib.py): a facade holding one WebDriver  *)
(* handle, with connect/close wrapped in                                   *)
(* @retry(stop_max_attempt_number=2, wait_fixed=2000) and five plain       *)
(* delegating operations.  The WebDriver library is the environment: its   *)
(* calls succeed or raise nondeterministically on a live session and       *)
(* raise on a session that has been quit.                                  *)
(***************************************************************************)
EXTENDS Integers, Sequences, FiniteSets, TLC

VARIABLES browser, driver, kinds, live, held, pc, call

vars == <<browser, driver, kinds, live, held, pc, call>>

(* ------------------------------ bounds --------------------------------- *)

\* sessions one facade starts in a behaviour (ids 1..MaxSessions)
MaxSessions == 2

(* ----------------------------- constants ------------------------------- *)

\* self.driver = None; also the absent element
None == 0

stop_max_attempt_number == 2

wait_fixed == 2000

\* a session that was started by some other driver object, never by this
\* facade; an element located in it can be handed to click/send_keys
ExternalSession == MaxSessions + 1

NoErr == "ok"
Pending == "pending"
ValueError == "ValueError: Invalid browser specified"
AssertionError == "AssertionError: Element not found"
AttributeError == "AttributeError: 'NoneType' object has no attribute"
TimeoutException == "TimeoutException"
\* what the WebDriver library raises for a command on a session that was quit
InvalidSessionIdException == "InvalidSessionIdException"
\* failures of the WebDriver library on a live session / at session start
WebDriverErrors == {"WebDriverException", "SessionNotCreatedException"}

(* ------------------------- str.lower() --------------------------------- *)

Upper == <<"A","B","C","D","E","F","G","H","I","J","K","L","M",
           "N","O","P","Q","R","S","T","U","V","W","X","Y","Z">>
Lower == <<"a","b","c","d","e","f","g","h","i","j","k","l","m",
           "n","o","p","q","r","s","t","u","v","w","x","y","z">>

LowerChar(c) ==
    IF \E i \in DOMAIN Upper : Upper[i] = c
    THEN Lower[CHOOSE i \in DOMAIN Upper : Upper[i] = c]
    ELSE c

\* self.browser.lower(): a string is a sequence of one-character strings
lower(s) == [i \in DOMAIN s |-> LowerChar(s[i])]

chrome == <<"c","h","r","o","m","e">>
firefox == <<"f","i","r","e","f","o","x">>
edge == <<"e","d","g","e">>

\* the browser strings a facade is constructed with
BrowserKinds ==
    { chrome, firefox, edge,
      <<"C","H","R","O","M","E">>,
      <<"F","i","r","e","F","o","x">>,
      <<"E","d","g","E">>,
      <<"s","a","f","a","r","i">>,
      <<"c","h","r","o","m","e"," ">>,
      <<>> }

(* ------------------------------ logging -------------------------------- *)

Info(m) == [level |-> "INFO",  msg |-> m]
Debug(m) == [level |-> "DEBUG", msg |-> m]
Error(m) == [level |-> "ERROR", msg |-> m]

(* ------------------------ the retrying decorator ----------------------- *)

\* mutant: the decorator gives up after the first failure
RetryDecision_NoRetry(attempt_number, exc) ==
    IF exc = NoErr THEN "return" ELSE "raise"

\* mutant: the stop test is off by one (> instead of >=)
RetryDecision_ThreeAttempts(attempt_number, exc) ==
    IF exc = NoErr THEN "return"
    ELSE IF attempt_number > stop_max_attempt_number THEN "raise"
    ELSE "sleep"

\* Retrying.call after one attempt: a result is returned, an exception is
\* re-raised once attempt_number reaches stop_max_attempt_number, and is
\* otherwise followed by a sleep of wait_fixed ms and another attempt
RetryDecision(attempt_number, exc) ==
    IF exc = NoErr THEN "return"
    ELSE IF attempt_number >= stop_max_attempt_number THEN "raise"
    ELSE "sleep"

(* --------------------------- method bodies ----------------------------- *)

\* mutant: self.browser compared without .lower()
ConnectBody_CaseSensitive(b, drv, nextId, outcome) ==
    LET mk(ctor) ==
            IF outcome = NoErr
            THEN [driver |-> nextId, started |-> <<ctor>>, exc |-> NoErr,
                  log |-> <<Info("Connecting")>>]
            ELSE [driver |-> drv, started |-> <<>>, exc |-> outcome,
                  log |-> <<Info("Connecting"), Error(outcome)>>]
    IN  IF b = chrome THEN mk("Chrome")
        ELSE IF b = firefox THEN mk("Firefox")
        ELSE IF b = edge THEN mk("Edge")
        ELSE [driver |-> drv, started |-> <<>>, exc |-> ValueError,
              log |-> <<Info("Connecting"), Error(ValueError)>>]

\* mutant: the except branch resets self.driver to None
ConnectBody_ClearsOnFailure(b, drv, nextId, outcome) ==
    LET mk(ctor) ==
            IF outcome = NoErr
            THEN [driver |-> nextId, started |-> <<ctor>>, exc |-> NoErr,
                  log |-> <<Info("Connecting")>>]
            ELSE [driver |-> None, started |-> <<>>, exc |-> outcome,
                  log |-> <<Info("Connecting"), Error(outcome)>>]
    IN  IF lower(b) = chrome THEN mk("Chrome")
        ELSE IF lower(b) = firefox THEN mk("Firefox")
        ELSE IF lower(b) = edge THEN mk("Edge")
        ELSE [driver |-> None, started |-> <<>>, exc |-> ValueError,
              log |-> <<Info("Connecting"), Error(ValueError)>>]

\* body of connect(): outcome is what webdriver.Chrome()/Firefox()/Edge()
\* does when called (NoErr: returns a new session, handed in as nextId)
ConnectBody(b, drv, nextId, outcome) ==
    LET mk(ctor) ==
            IF outcome = NoErr
            THEN [driver |-> nextId, started |-> <<ctor>>, exc |-> NoErr,
                  log |-> <<Info("Connecting")>>]
            ELSE [driver |-> drv, started |-> <<>>, exc |-> outcome,
                  log |-> <<Info("Connecting"), Error(outcome)>>]
    IN  IF lower(b) = chrome THEN mk("Chrome")
        ELSE IF lower(b) = firefox THEN mk("Firefox")
        ELSE IF lower(b) = edge THEN mk("Edge")
        ELSE [driver |-> drv, started |-> <<>>, exc |-> ValueError,
              log |-> <<Info("Connecting"), Error(ValueError)>>]

\* mutant: quit() is called without the `if self.driver` test
CloseBody_NoGuard(drv, liveSet, q) ==
    IF drv # None
    THEN [driver |-> drv, quits |-> 1,
          live |-> IF q.dead THEN liveSet \ {drv} ELSE liveSet,
          exc |-> q.exc,
          log |-> IF q.exc = NoErr THEN <<Info("Closing")>>
                  ELSE <<Info("Closing"), Error(q.exc)>>]
    ELSE [driver |-> drv, quits |-> 0, live |-> liveSet, exc |-> AttributeError,
          log |-> <<Info("Closing"), Error(AttributeError)>>]

\* body of close(): q is what self.driver.quit() does when it is called:
\* q.exc is what it raises (NoErr: returns), q.dead whether the session is
\* gone afterwards
CloseBody(drv, liveSet, q) ==
    IF drv # None
    THEN [driver |-> drv, quits |-> 1,
          live |-> IF q.dead THEN liveSet \ {drv} ELSE liveSet,
          exc |-> q.exc,
          log |-> IF q.exc = NoErr THEN <<Info("Closing")>>
                  ELSE <<Info("Closing"), Error(q.exc)>>]
    ELSE [driver |-> drv, quits |-> 0, live |-> liveSet, exc |-> NoErr,
          log |-> <<Info("Closing")>>]

\* outcomes of quit(): it returns with the session gone, or raises with the
\* session gone or not
QuitOutcomes ==
    {[exc |-> NoErr, dead |-> TRUE]} \cup
    {[exc |-> e, dead |-> d] : e \in WebDriverErrors, d \in BOOLEAN}

\* outcomes of a WebDriver command on session s: any on a live session, only
\* the library's error on a session that was quit
CommandOutcomes(s, liveSet, errs) ==
    IF s = ExternalSession \/ s \in liveSet
    THEN {NoErr} \cup errs
    ELSE {InvalidSessionIdException}

\* `if element:` in click_element
Truthy(element) == element # None

(* ------------------------------- state --------------------------------- *)

\* bookkeeping of the call in progress (or the last one finished)
NewCall(op) ==
    [op |-> op, attempts |-> 0, waits |-> 0, waited |-> 0, errs |-> <<>>,
     raised |-> Pending, started |-> <<>>, quits |-> 0, invoked |-> 0,
     performed |-> FALSE, underErr |-> NoErr, log |-> <<>>,
     driverBefore |-> driver,
     liveBefore |-> (driver # None /\ driver \in live),
     elem |-> None,
     afterClose |->
        \/ (call.op = "close" /\ call.raised = NoErr /\ call.quits > 0)
        \/ (call.afterClose /\ ~(call.op = "connect" /\ call.raised = NoErr))]

\* SeleniumLib(browser)
Init ==
    /\ browser \in BrowserKinds
    /\ driver = None
    /\ kinds = <<>>
    /\ live = {}
    /\ held = {}
    /\ pc = "idle"
    /\ call = [op |-> "__init__", attempts |-> 0, waits |-> 0, waited |-> 0,
               errs |-> <<>>, raised |-> NoErr, started |-> <<>>, quits |-> 0,
               invoked |-> 0, performed |-> FALSE, underErr |-> NoErr,
               log |-> <<>>, driverBefore |-> None, liveBefore |-> FALSE,
               elem |-> None, afterClose |-> FALSE]

\* what the decorator does with the exception exc of attempt c.attempts + 1
Attempted(c, exc, log) ==
    LET n == c.attempts + 1
        d == RetryDecision(n, exc)
    IN  [c EXCEPT !.attempts = n,
                  !.errs = Append(@, exc),
                  !.log = @ \o log,
                  !.raised = IF d = "return" THEN NoErr
                             ELSE IF d = "raise" THEN exc ELSE Pending]

NextPc(c, exc) ==
    IF RetryDecision(c.attempts + 1, exc) = "sleep" THEN "sleep" ELSE "idle"

\* one run of the body of connect() under the decorator
ConnectAttempt(c) ==
    \E outcome \in {NoErr} \cup WebDriverErrors :
        LET r == ConnectBody(browser, driver, Len(kinds) + 1, outcome)
        IN  /\ driver' = r.driver
            /\ kinds' = kinds \o r.started
            /\ live' = IF r.started # <<>> THEN live \cup {Len(kinds) + 1} ELSE live
            /\ call' = [Attempted(c, r.exc, r.log) EXCEPT
                           !.started = @ \o (IF r.started # <<>>
                                             THEN <<Len(kinds) + 1>> ELSE <<>>)]
            /\ pc' = NextPc(c, r.exc)
            /\ UNCHANGED <<browser, held>>

connect ==
    /\ pc = "idle"
    /\ Len(kinds) < MaxSessions
    /\ ConnectAttempt(NewCall("connect"))

connect_retry ==
    /\ pc = "retry"
    /\ call.op = "connect"
    /\ ConnectAttempt(call)

\* time.sleep(wait_fixed / 1000) between two attempts
retry_sleep ==
    /\ pc = "sleep"
    /\ pc' = "retry"
    /\ call' = [call EXCEPT !.waits = @ + 1, !.waited = @ + wait_fixed]
    /\ UNCHANGED <<browser, driver, kinds, live, held>>

\* one run of the body of close() under the decorator
CloseAttempt(c) ==
    \E q \in QuitOutcomes :
        LET r == CloseBody(driver, live, q)
        IN  /\ driver' = r.driver
            /\ live' = r.live
            /\ call' = [Attempted(c, r.exc, r.log) EXCEPT !.quits = @ + r.quits]
            /\ pc' = NextPc(c, r.exc)
            /\ UNCHANGED <<browser, kinds, held>>

close ==
    /\ pc = "idle"
    /\ CloseAttempt(NewCall("close"))

close_retry ==
    /\ pc = "retry"
    /\ call.op = "close"
    /\ CloseAttempt(call)

(* ----------------------- the plain operations -------------------------- *)

Urls == {"https://www.example.com", "about:blank"}

Locators == {<<"id", "submit-button">>, <<"name", "q">>}

Texts == {"", "Selenium Python"}

\* the session an element reference was located in
SessionOf(element) == element

\* element references the caller can pass: none, one returned earlier by
\* find_element / wait_for_element_visibility, or one located elsewhere
Elements == {None} \cup held \cup {ExternalSession}

\* mutant: the except branch logs and does not re-raise
Guarded_Swallow(first, invoked, tryExc) ==
    [invoked |-> invoked, tryExc |-> tryExc, raised |-> NoErr,
     performed |-> (invoked > 0 /\ tryExc = NoErr),
     log |-> first \o (IF tryExc # NoErr THEN <<Error(tryExc)>> ELSE <<>>)]

\* try: <op> / except Exception as e: logging.error(...); raise
\* tryExc is what the try block raised, first the log line written before it
Guarded(first, invoked, tryExc) ==
    [invoked |-> invoked, tryExc |-> tryExc, raised |-> tryExc,
     performed |-> (invoked > 0 /\ tryExc = NoErr),
     log |-> first \o (IF tryExc # NoErr THEN <<Error(tryExc)>> ELSE <<>>)]

\* mutant: navigation is skipped silently when there is no handle
NavigateBody_SkipWhenNone(drv, url, outcome) ==
    IF drv = None
    THEN Guarded(<<Info(url)>>, 0, NoErr)
    ELSE Guarded(<<Info(url)>>, 1, outcome)

\* body of navigate_to(url); outcome is what self.driver.get(url) does
NavigateBody(drv, url, outcome) ==
    IF drv = None
    THEN Guarded(<<Info(url)>>, 0, AttributeError)
    ELSE Guarded(<<Info(url)>>, 1, outcome)

\* body of find_element(by, value)
FindBody(drv, locator, outcome) ==
    IF drv = None
    THEN Guarded(<<Debug(locator[2])>>, 0, AttributeError)
    ELSE Guarded(<<Debug(locator[2])>>, 1, outcome)

\* body of wait_for_element_visibility(locator): WebDriverWait(None, t)
\* is built and until() raises when the condition touches the driver
WaitBody(drv, locator, outcome) ==
    IF drv = None
    THEN Guarded(<<Info("Waiting for element visibility")>>, 1, AttributeError)
    ELSE Guarded(<<Info("Waiting for element visibility")>>, 1, outcome)

\* mutant: element.click() is called without the `if element` test
ClickBody_NoCheck(element, outcome) ==
    IF Truthy(element)
    THEN Guarded(<<Info("Clicking on element")>>, 1, outcome)
    ELSE Guarded(<<Info("Clicking on element")>>, 0, AttributeError)

\* body of click_element(element); outcome is what element.click() does
ClickBody(element, outcome) ==
    IF Truthy(element)
    THEN Guarded(<<Info("Clicking on element")>>, 1, outcome)
    ELSE Guarded(<<Info("Clicking on element"), Error("Element not found")>>,
                 0, AssertionError)

\* body of send_keys_to_element(element, text)
SendKeysBody(element, text, outcome) ==
    IF element = None
    THEN Guarded(<<Info(text)>>, 0, AttributeError)
    ELSE Guarded(<<Info(text)>>, 1, outcome)

\* outcomes of a command sent through the handle (none when it is None)
DriverOutcomes(errs) ==
    IF driver = None THEN {NoErr} ELSE CommandOutcomes(driver, live, errs)

\* outcomes of a command sent through an element reference
ElementOutcomes(element) ==
    IF element = None THEN {NoErr}
    ELSE CommandOutcomes(SessionOf(element), live, WebDriverErrors)

Finished(op, element, r) ==
    [NewCall(op) EXCEPT !.attempts = 1, !.errs = <<r.tryExc>>,
                        !.raised = r.raised, !.invoked = r.invoked,
                        !.performed = r.performed, !.underErr = r.tryExc,
                        !.log = r.log, !.elem = element]

navigate_to ==
    /\ pc = "idle"
    /\ \E url \in Urls, outcome \in DriverOutcomes(WebDriverErrors) :
          call' = Finished("navigate_to", None, NavigateBody(driver, url, outcome))
    /\ UNCHANGED <<browser, driver, kinds, live, held, pc>>

find_element ==
    /\ pc = "idle"
    /\ \E locator \in Locators, outcome \in DriverOutcomes(WebDriverErrors) :
          LET r == FindBody(driver, locator, outcome)
          IN  /\ call' = Finished("find_element", None, r)
              /\ held' = IF r.raised = NoErr THEN held \cup {driver} ELSE held
    /\ UNCHANGED <<browser, driver, kinds, live, pc>>

wait_for_element_visibility ==
    /\ pc = "idle"
    /\ \E locator \in Locators,
          outcome \in DriverOutcomes(WebDriverErrors \cup {TimeoutException}) :
          LET r == WaitBody(driver, locator, outcome)
          IN  /\ call' = Finished("wait_for_element_visibility", None, r)
              /\ held' = IF r.raised = NoErr THEN held \cup {driver} ELSE held
    /\ UNCHANGED <<browser, driver, kinds, live, pc>>

click_element ==
    /\ pc = "idle"
    /\ \E element \in Elements : \E outcome \in ElementOutcomes(element) :
          call' = Finished("click_element", element, ClickBody(element, outcome))
    /\ UNCHANGED <<browser, driver, kinds, live, held, pc>>

send_keys_to_element ==
    /\ pc = "idle"
    /\ \E element \in Elements, text \in Texts :
          \E outcome \in ElementOutcomes(element) :
             call' = Finished("send_keys_to_element", element,
                              SendKeysBody(element, text, outcome))
    /\ UNCHANGED <<browser, driver, kinds, live, held, pc>>

Next ==
    \/ connect
    \/ connect_retry
    \/ retry_sleep
    \/ close
    \/ close_retry
    \/ navigate_to
    \/ find_element
    \/ wait_for_element_visibility
    \/ click_element
    \/ send_keys_to_element

Spec == Init /\ [][Next]_vars

(* ------------------------------ properties ----------------------------- *)

PlainOps == {"navigate_to", "find_element", "wait_for_element_visibility",
             "click_element", "send_keys_to_element"}

\* the call named op has returned or raised
Done(op) == pc = "idle" /\ call.op = op

\* b equals chrome, firefox or edge when compared case-insensitively
Supported(b) ==
    /\ Len(b) \in {Len(chrome), Len(firefox), Len(edge)}
    /\ \E k \in {chrome, firefox, edge} :
          /\ Len(k) = Len(b)
          /\ \A i \in DOMAIN k :
                \/ b[i] = k[i]
                \/ \E j \in DOMAIN Upper : Lower[j] = k[i] /\ Upper[j] = b[i]

\* the session constructor that matches b
Matching(b) ==
    IF Len(b) = Len(chrome) THEN "Chrome"
    ELSE IF Len(b) = Len(firefox) THEN "Firefox"
    ELSE "Edge"

\* C1: for a browser string that is chrome, firefox or edge up to case, a
\* connect() in which no session start failed succeeds, and a connect() that
\* succeeds has started exactly one session, of the matching kind, whose
\* handle is the one stored in the facade.
C1_ConnectStartsOneSession ==
    (Done("connect") /\ Supported(browser)) =>
        /\ (\A i \in DOMAIN call.errs : call.errs[i] \notin WebDriverErrors)
              => call.raised = NoErr
        /\ call.raised = NoErr =>
              /\ Len(call.started) = 1
              /\ kinds[call.started[1]] = Matching(browser)
              /\ driver = call.started[1]
              /\ driver \in live

C1_Witness ==
    /\ Done("connect")
    /\ browser = <<"C","H","R","O","M","E">>
    /\ call.raised = NoErr
    /\ call.attempts = 1
    /\ kinds[driver] = "Chrome"

\* C2 (as stated): a close() that succeeds on a stored handle has terminated
\* the session and cleared the handle, and a close() called after such a
\* close() invokes no session termination and does not fail.
C2_CloseClearsHandle ==
    /\ (Done("close") /\ call.raised = NoErr /\ call.driverBefore # None) =>
          (call.driverBefore \notin live /\ driver = None)
    /\ (call.op = "close" /\ call.afterClose) =>
          (pc = "idle" /\ call.quits = 0 /\ call.raised = NoErr)

\* C3 (as stated): at most one session started by the facade is live.
C3_AtMostOneLiveSession == Cardinality(live) <= 1

C6_CloseWithoutSessionIsNoOp ==
    (call.op = "close" /\ call.driverBefore = None) =>
        /\ pc = "idle"
        /\ call.raised = NoErr
        /\ call.attempts = 1
        /\ call.waits = 0
        /\ call.quits = 0
        /\ driver = None

\* close() after a connect() that failed on both attempts
C6_Witness ==
    /\ Done("close")
    /\ call.driverBefore = None
    /\ call.raised = NoErr
    /\ Supported(browser)
    /\ kinds = <<>>

\* C7: click_element(None) raises the AssertionError and never invokes the
\* underlying click, whatever the state of the facade.
C7_ClickNoneFails ==
    (call.op = "click_element" /\ call.elem = None) =>
        /\ call.raised = AssertionError
        /\ call.invoked = 0
        /\ ~call.performed

\* click_element(None) while a session is live
C7_Witness ==
    /\ Done("click_element")
    /\ call.elem = None
    /\ call.liveBefore
    /\ call.raised = AssertionError

C9_PlainOpsNeedLiveSession ==
    (call.op \in PlainOps /\ ~call.liveBefore) =>
        (call.raised # NoErr /\ ~call.performed)

\* C9 (amended): navigate_to, find_element and wait_for_element_visibility
\* called on a facade with no live session fail without performing their
\* action; click_element and send_keys_to_element fail without performing
\* theirs when the element is absent or belongs to a session that is not live.
C9_SessionOrElementNeeded ==
    /\ (/\ call.op \in {"navigate_to", "find_element",
                        "wait_for_element_visibility"}
        /\ ~call.liveBefore) =>
          (call.raised # NoErr /\ ~call.performed)
    /\ (/\ call.op \in {"click_element", "send_keys_to_element"}
        /\ \/ call.elem = None
           \/ (call.elem # ExternalSession /\ call.elem \notin live)) =>
          (call.raised # NoErr /\ ~call.performed)

\* navigate_to after a close() that quit the session
C9_Witness ==
    /\ Done("navigate_to")
    /\ call.driverBefore # None
    /\ ~call.liveBefore
    /\ call.afterClose
    /\ call.raised = InvalidSessionIdException

\* C10: a connect() that has failed on both attempts leaves the stored
\* handle as it was before the call, and no step changes the stored browser
\* kind.
C10_FailedConnectKeepsState ==
    [][/\ browser' = browser
       /\ (pc' = "idle" /\ call'.op = "connect" /\ call'.raised # NoErr) =>
             driver' = call'.driverBefore]_vars

\* a connect() that failed twice on a facade holding a handle
C10_Witness ==
    /\ Done("connect")
    /\ call.raised # NoErr
    /\ call.attempts = 2
    /\ call.driverBefore # None
    /\ driver = call.driverBefore

====
